---- MODULE Spec2Model ----
(***************************************************************************)
(* Model of the customer support crew of Elbrak17/swarm                    *)
(* (agents/app/crew/customer_support_crew.py, crew/tasks.py, models.py).   *)
(*                                                                         *)
(* One CustomerSupportCrew is constructed per job and its execute()        *)
(* coroutine is followed statement group by statement group: the progress  *)
(* notification of a stage, the start of the agent call (kickoff), its     *)
(* return or raise, the append of the stage record, and the two return     *)
(* statements (success, and the except handler).                           *)
(*                                                                         *)
(* Python strings are modelled as sequences of pieces, so that an f-string *)
(* is the concatenation of its literal pieces and interpolated values.     *)
(***************************************************************************)
EXTENDS Integers, Sequences, FiniteSets, TLC

(***************************************************************************)
(* Bounds of the model.                                                    *)
(***************************************************************************)
\* time.time() readings are drawn from 0..MaxTick (wall clock: any order)
MaxTick == 2
\* resolution of a clock reading: TicksPerMs readings units per millisecond
TicksPerMs == 2
\* largest integer factor used when scaling stage durations
MaxScale == 3

(***************************************************************************)
(* Small input sets.                                                       *)
(***************************************************************************)
JobIds == {"J1", "J2"}
Titles == {"Cannot log in"}
Descriptions == {"Password reset link expired"}
RequirementsSet == {"", "Reply within 24h"}
Outputs == {"TYPE:technical", "APPROVED: Here is how to reset..."}
AgentErrors == {"model unavailable"}
ReporterErrors == {"notify failed"}
Ticks == 0..MaxTick

Roles == {"router", "worker", "qa"}

\* models.py JobInput (swarm_id and callback_url are not read by execute)
JobInput(id, t, d, r) ==
    [job_id |-> id, title |-> t, description |-> d, requirements |-> r]

\* models.py TaskResult
TaskResult(addr, name, out, tokens, ms) ==
    [agent_address |-> addr, task_name |-> name, output |-> out,
     tokens_used |-> tokens, execution_time_ms |-> ms]

\* models.py ProgressUpdate
ProgressUpdate(id, st, agent, msg, pct) ==
    [job_id |-> id, stage |-> st, agent_id |-> agent, message |-> msg,
     progress |-> pct]

\* models.py JobResult
JobResult(id, ok, out, results, cost, hash) ==
    [job_id |-> id, success |-> ok, final_output |-> out,
     task_results |-> results, total_cost_usd |-> cost, result_hash |-> hash]

(***************************************************************************)
(* Dictionaries are sets of <<key, value>> pairs; None is is_none = TRUE.  *)
(***************************************************************************)
DEFAULT_AGENT_ADDRESSES ==
    { <<"router", "0x1111111111111111111111111111111111111111">>,
      <<"worker", "0x2222222222222222222222222222222222222222">>,
      <<"qa", "0x3333333333333333333333333333333333333333">> }

CUSTOM_AGENT_ADDRESSES ==
    { <<"router", "0xaaaa">>, <<"worker", "0xbbbb">>, <<"qa", "0xcccc">> }

\* the agent_addresses arguments a caller passes: None, {} or a mapping of
\* the agent roles to wallet addresses
AddressArgs ==
    { [is_none |-> TRUE, items |-> {}],
      [is_none |-> FALSE, items |-> {}],
      [is_none |-> FALSE, items |-> CUSTOM_AGENT_ADDRESSES] }

\* Python truthiness of an Optional[dict]
Truthy(d) == ~d.is_none /\ d.items # {}

\* d[key]
Lookup(d, key) == (CHOOSE p \in d : p[1] = key)[2]

\* a stub agent: what its kickoff does (returns text, or raises with text)
AgentBehaviours ==
    { [raises |-> FALSE, text |-> o] : o \in Outputs } \cup
    { [raises |-> TRUE, text |-> m] : m \in AgentErrors }

(***************************************************************************)
(* The fixed tables of the three unrolled stages of execute (stage 4 is    *)
(* the completion notification).                                           *)
(***************************************************************************)
StageRole(k) ==
    CASE k = 1 -> "router" [] k = 2 -> "worker" [] k = 3 -> "qa"

StageName(k) ==
    CASE k = 1 -> "routing" [] k = 2 -> "processing" [] k = 3 -> "qa"
      [] k = 4 -> "complete"

StageAgentId(k) ==
    CASE k = 1 -> "router" [] k = 2 -> "worker" [] k = 3 -> "qa"
      [] k = 4 -> "system"

StageMessage(k) ==
    CASE k = 1 -> "Analyzing and classifying the support ticket"
      [] k = 2 -> "Resolving the customer issue"
      [] k = 3 -> "Validating response quality"
      [] k = 4 -> "Job completed successfully"

\* the percentages of processing and qa exchanged
StageProgressSwapped(k) ==
    CASE k = 1 -> 10 [] k = 2 -> 70 [] k = 3 -> 40 [] k = 4 -> 100

StageProgress(k) ==
    CASE k = 1 -> 10 [] k = 2 -> 40 [] k = 3 -> 70 [] k = 4 -> 100

StageTaskName(k) ==
    CASE k = 1 -> "ticket_classification" [] k = 2 -> "issue_resolution"
      [] k = 3 -> "quality_assurance"

(***************************************************************************)
(* tasks.py: the task descriptions (f-string templates).                   *)
(***************************************************************************)
create_routing_task(ticket) ==
    <<"Analyze and classify the following customer support ticket:">>
        \o ticket \o <<"Your task: classify">>

create_processing_task(ticket, classification) ==
    <<"Resolve the following customer support ticket based on the classification:",
      "ORIGINAL TICKET:">> \o ticket \o <<"CLASSIFICATION:">>
        \o classification \o <<"Your task: resolve">>

create_qa_task(ticket, proposed_response) ==
    <<"Review and validate the following customer support response:",
      "ORIGINAL TICKET:">> \o ticket \o <<"PROPOSED RESPONSE:">>
        \o proposed_response \o <<"Your task: review">>

\* ticket_content of execute
TicketContent(input) ==
    <<input.title, "\n\n", input.description>> \o
        (IF input.requirements # ""
            THEN <<"\n\nRequirements: ", input.requirements>>
            ELSE <<>>)

\* int(x) of a quotient: truncation toward zero
TruncDiv(a, b) == IF a >= 0 THEN a \div b ELSE -((-a) \div b)

\* int((time.time() - start_time) * 1000)
ElapsedMs(start, now) == TruncDiv(now - start, TicksPerMs)

\* hashlib.sha256(content.encode()).hexdigest(): 64 hex characters that
\* depend on the content only
Sha256Hex(content) == [of |-> content, len |-> 64]

\* s[:n] of a digest
Prefix(h, n) == [h EXCEPT !.len = IF n < h.len THEN n ELSE h.len]

HashLen == 46

\* the whole hexdigest kept instead of its first 46 characters
generate_result_hash_untruncated(content) ==
    [scheme |-> "ipfs://", digest |-> Sha256Hex(content)]

\* _generate_result_hash
generate_result_hash(content) ==
    [scheme |-> "ipfs://", digest |-> Prefix(Sha256Hex(content), HashLen)]

RECURSIVE SumTimes(_)
\* sum(r.execution_time_ms for r in task_results)
SumTimes(results) ==
    IF results = <<>> THEN 0
    ELSE Head(results).execution_time_ms + SumTimes(Tail(results))

(***************************************************************************)
(* total_cost_usd is a Python float: an IEEE-754 double, kept here as      *)
(* sign * mant * 2^exp with mant a 53-bit integer in [2^52, 2^53), held as *)
(* five 13-bit limbs, least significant first. ZeroDouble is 0.0.          *)
(***************************************************************************)
Limb == 2 ^ 13

ZeroDouble == [sign |-> 0, mant |-> <<0, 0, 0, 0, 0>>, exp |-> 0]

\* the double 0.00001 = 0x1.4f8b588e368f1p-17 = 0x14f8b588e368f1 * 2^-69
COST_RATE ==
    [sign |-> 1, mant |-> <<2289, 1819, 3426, 2545, 1>>, exp |-> -69]

\* a * n for a limb number a and 0 < n < 2^12 (the top limb takes the carry)
BigMulSmall(a, n) ==
    LET p1 == a[1] * n
        p2 == a[2] * n + (p1 \div Limb)
        p3 == a[3] * n + (p2 \div Limb)
        p4 == a[4] * n + (p3 \div Limb)
        p5 == a[5] * n + (p4 \div Limb)
    IN  <<p1 % Limb, p2 % Limb, p3 % Limb, p4 % Limb, p5>>

RECURSIVE BitLen(_)
\* the number of bits of x >= 0
BitLen(x) == IF x = 0 THEN 0 ELSE 1 + BitLen(x \div 2)

\* the number of bits of a limb number a # 0
BigBitLen(a) ==
    LET top == CHOOSE i \in 1..5 :
                  a[i] # 0 /\ \A h \in (i + 1)..5 : a[h] = 0
    IN  13 * (top - 1) + BitLen(a[top])

\* a \div 2^s for 0 < s < 13
BigShiftRight(a, s) ==
    [i \in 1..5 |->
        (a[i] \div (2 ^ s))
            + (IF i < 5 THEN (a[i + 1] % (2 ^ s)) * (2 ^ (13 - s)) ELSE 0)]

RECURSIVE BigIncAt(_, _)
\* a + Limb^(i-1)
BigIncAt(a, i) ==
    IF a[i] + 1 < Limb \/ i = 5 THEN [a EXCEPT ![i] = @ + 1]
    ELSE BigIncAt([a EXCEPT ![i] = 0], i + 1)

\* n * d in double arithmetic for an integer n with |n| < 2^12 (float(n) is
\* exact): the exact product rounded to 53 bits, ties to even
FloatMulInt(n, d) ==
    IF n = 0 \/ d.sign = 0 THEN ZeroDouble
    ELSE
        LET p == BigMulSmall(d.mant, IF n < 0 THEN -n ELSE n)
            s == BigBitLen(p) - 53
            q == IF s = 0 THEN p ELSE BigShiftRight(p, s)
            r == IF s = 0 THEN 0 ELSE p[1] % (2 ^ s)
            half == IF s = 0 THEN 1 ELSE 2 ^ (s - 1)
            up == s > 0 /\ (r > half \/ (r = half /\ q[1] % 2 = 1))
            q2 == IF up THEN BigIncAt(q, 1) ELSE q
            over == BigBitLen(q2) = 54
        IN  [sign |-> IF n < 0 THEN -d.sign ELSE d.sign,
             mant |-> IF over THEN BigShiftRight(q2, 1) ELSE q2,
             exp |-> d.exp + s + (IF over THEN 1 ELSE 0)]

\* the cost taken from the last record alone
EstimatedCostLastStage(results) ==
    FloatMulInt(results[Len(results)].execution_time_ms, COST_RATE)

\* estimated_cost = total_time_ms * 0.00001
EstimatedCost(results) == FloatMulInt(SumTimes(results), COST_RATE)

\* the except handler billing the recorded stages
FailureCostPartial(results) == FloatMulInt(SumTimes(results), COST_RATE)

\* total_cost_usd=0.0 of the except handler
FailureCost(results) == ZeroDouble

VARIABLES
    pc,               \* per job: position of its crew's execute()
    stage,            \* per job: the stage (1..4) execute is in, 0 outside
    job_input,        \* per job: the JobInput passed to execute
    agent_addresses,  \* per job: self.agent_addresses
    progress_callback,\* per job: whether self.progress_callback is set
    agents,           \* per job: the behaviour of the three agents
    ticket_content,   \* per job: local ticket_content
    start_time,       \* per job: local start_time while a kickoff runs
    stage_result,     \* per job: the agents' returned values so far
    stage_time,       \* per job: local routing_time/processing_time/qa_time
    task_results,     \* per job: local task_results
    notified,         \* per job: the ProgressUpdates passed to the callback
    invoked,          \* per job: the agent invocations (role, description)
    returned,         \* per job: the JobResults returned by execute
    raised            \* per job: what raised inside the try block, if anything

vars == <<pc, stage, job_input, agent_addresses, progress_callback, agents,
          ticket_content, start_time, stage_result, stage_time, task_results,
          notified, invoked, returned, raised>>

(***************************************************************************)
(* The FastAPI service of main.py: one asyncio event loop that runs the    *)
(* request handlers, the background process_job tasks and the progress     *)
(* delivery tasks, one at a time, each until it awaits.                    *)
(***************************************************************************)
VARIABLES
    settings,         \* get_settings(): groq_api_key and callback_url
    request,          \* per job: the HTTP request (endpoint, body)
    response,         \* per job: the HTTP responses sent to the caller
    ready,            \* the event loop's FIFO queue of tasks ready to run
    current,          \* the task that is running on the event loop
    posts,            \* per job: the HTTP POSTs of its callbacks (status)
    received          \* per job: what the callback receiver got, in order

svars == <<settings, request, response, ready, current, posts, received>>

allvars == <<vars, svars>>

NoInput == JobInput("", "", "", "")
NoAgents == [r \in Roles |-> [raises |-> FALSE, text |-> ""]]

\* a task of the event loop: a request handler, a background process_job
\* or the delivery of the idx-th POST of a job
Task(kind, j, idx) == [kind |-> kind, job |-> j, idx |-> idx]
NoTask == Task("none", "", 0)

\* Settings(): the API key and the service-wide callback URL ("" is unset)
Settings(key, url) == [groq_api_key |-> key, callback_url |-> url]
NoRequest == [endpoint |-> "none", input |-> NoInput, callback_url |-> ""]

\* no crew has been constructed
CrewInit ==
    /\ pc = [j \in JobIds |-> "new"]
    /\ stage = [j \in JobIds |-> 0]
    /\ job_input = [j \in JobIds |-> NoInput]
    /\ agent_addresses = [j \in JobIds |-> {}]
    /\ progress_callback = [j \in JobIds |-> FALSE]
    /\ agents = [j \in JobIds |-> NoAgents]
    /\ ticket_content = [j \in JobIds |-> <<>>]
    /\ start_time = [j \in JobIds |-> 0]
    /\ stage_result = [j \in JobIds |-> <<>>]
    /\ stage_time = [j \in JobIds |-> 0]
    /\ task_results = [j \in JobIds |-> <<>>]
    /\ notified = [j \in JobIds |-> <<>>]
    /\ invoked = [j \in JobIds |-> <<>>]
    /\ returned = [j \in JobIds |-> <<>>]
    /\ raised = [j \in JobIds |-> "none"]

\* the service has received no request
ServiceIdle ==
    /\ request = [j \in JobIds |-> NoRequest]
    /\ response = [j \in JobIds |-> <<>>]
    /\ ready = <<>>
    /\ current = NoTask
    /\ posts = [j \in JobIds |-> <<>>]
    /\ received = [j \in JobIds |-> <<>>]

\* the crew used on its own, outside the service
Init ==
    /\ CrewInit
    /\ ServiceIdle
    /\ settings = Settings("", "")


\* str(x) of an agent's returned value or of an exception
Str(x) == <<x>>

\* the qa task built from the routing result instead of the processing result
TaskDescriptionStale(k, ticket, results) ==
    CASE k = 1 -> create_routing_task(ticket)
      [] k = 2 -> create_processing_task(ticket, Str(results[1]))
      [] k = 3 -> create_qa_task(ticket, Str(results[1]))

\* the description of the task handed to the agent of stage k
TaskDescription(k, ticket, results) ==
    CASE k = 1 -> create_routing_task(ticket)
      [] k = 2 -> create_processing_task(ticket, Str(results[1]))
      [] k = 3 -> create_qa_task(ticket, Str(results[2]))

\* the TaskResult appended after the agent of stage k returned
StageRecord(k, addresses, results, ms) ==
    TaskResult(Lookup(addresses, StageRole(k)), StageTaskName(k),
               Str(results[k]), 0, ms)

\* the JobResult of the success path
SuccessResult(input, results, records) ==
    JobResult(input.job_id, TRUE, Str(results[3]), records,
              EstimatedCost(records),
              generate_result_hash(Str(results[3])))

\* the except handler dropping the records of the completed stages
FailureResultRollback(input, records, e) ==
    JobResult(input.job_id, FALSE, <<"Error: ">> \o Str(e), <<>>,
              ZeroDouble, generate_result_hash(<<"error:">> \o Str(e)))

\* the JobResult of the except handler, e the exception's message
FailureResult(input, records, e) ==
    JobResult(input.job_id, FALSE, <<"Error: ">> \o Str(e), records,
              FailureCost(records),
              generate_result_hash(<<"error:">> \o Str(e)))

\* where execute continues after the notification of stage k returned
AfterProgress(k) == IF k < 4 THEN "kickoff" ELSE "finish"

\* the pipeline state execute is in, after the section comments of its body
Phase(j) ==
    CASE pc[j] \in {"new", "idle"} -> "Idle"
      [] pc[j] = "returned" ->
            IF returned[j][Len(returned[j])].success THEN "Complete" ELSE "Failed"
      [] OTHER ->
            CASE stage[j] = 1 -> "Routing" [] stage[j] = 2 -> "Processing"
              [] stage[j] = 3 -> "QA" [] stage[j] = 4 -> "Complete"

(***************************************************************************)
(* CustomerSupportCrew.__init__                                            *)
(***************************************************************************)
Construct(j, addrs, callback, behaviours) ==
    /\ pc[j] = "new"
    /\ agent_addresses' = [agent_addresses EXCEPT ![j] =
            IF Truthy(addrs) THEN addrs.items ELSE DEFAULT_AGENT_ADDRESSES]
    /\ progress_callback' = [progress_callback EXCEPT ![j] = callback]
    /\ agents' = [agents EXCEPT ![j] = behaviours]
    /\ pc' = [pc EXCEPT ![j] = "idle"]
    /\ UNCHANGED <<stage, job_input, ticket_content, start_time, stage_result,
                   stage_time, task_results, notified, invoked, returned, raised>>

(***************************************************************************)
(* execute: the statements before the try block                            *)
(***************************************************************************)
ExecuteBegin(j, input) ==
    /\ pc[j] = "idle"
    /\ input.job_id = j
    /\ job_input' = [job_input EXCEPT ![j] = input]
    /\ task_results' = [task_results EXCEPT ![j] = <<>>]
    /\ ticket_content' = [ticket_content EXCEPT ![j] = TicketContent(input)]
    /\ stage' = [stage EXCEPT ![j] = 1]
    /\ pc' = [pc EXCEPT ![j] = "progress"]
    /\ UNCHANGED <<agent_addresses, progress_callback, agents, start_time,
                   stage_result, stage_time, notified, invoked, returned, raised>>

\* the except handler of execute: return the failure result
Fail(j, e, cause) ==
    /\ returned' = [returned EXCEPT ![j] =
            Append(@, FailureResult(job_input[j], task_results[j], e))]
    /\ raised' = [raised EXCEPT ![j] = cause]
    /\ pc' = [pc EXCEPT ![j] = "returned"]

\* the update built from one job input shared by all the crews
StageUpdateSharedInput(j, k) ==
    ProgressUpdate(job_input[CHOOSE o \in JobIds : pc[o] # "new"].job_id,
                   StageName(k), StageAgentId(k), StageMessage(k),
                   StageProgress(k))

\* the update _send_progress builds for stage k
StageUpdate(j, k) ==
    ProgressUpdate(job_input[j].job_id, StageName(k), StageAgentId(k),
                   StageMessage(k), StageProgress(k))

\* _send_progress calling the callback twice with the update
SendProgressDuplicated(j) ==
    /\ pc[j] = "progress"
    /\ notified' = [notified EXCEPT ![j] =
            IF progress_callback[j]
            THEN Append(Append(@, StageUpdate(j, stage[j])),
                        StageUpdate(j, stage[j]))
            ELSE @]
    /\ pc' = [pc EXCEPT ![j] = AfterProgress(stage[j])]
    /\ UNCHANGED <<stage, job_input, agent_addresses, progress_callback, agents,
                   ticket_content, start_time, stage_result, stage_time,
                   task_results, invoked, returned, raised>>

(***************************************************************************)
(* _send_progress at the head of stage k, the callback (if any) returning  *)
(***************************************************************************)
SendProgress(j) ==
    /\ pc[j] = "progress"
    /\ notified' = [notified EXCEPT ![j] =
            IF progress_callback[j] THEN Append(@, StageUpdate(j, stage[j])) ELSE @]
    /\ pc' = [pc EXCEPT ![j] = AfterProgress(stage[j])]
    /\ UNCHANGED <<stage, job_input, agent_addresses, progress_callback, agents,
                   ticket_content, start_time, stage_result, stage_time,
                   task_results, invoked, returned, raised>>

(***************************************************************************)
(* _send_progress, the callback raising: the exception leaves              *)
(* _send_progress and is caught by the except handler of execute           *)
(***************************************************************************)
SendProgressRaises(j, e) ==
    /\ pc[j] = "progress"
    /\ progress_callback[j]
    /\ notified' = [notified EXCEPT ![j] = Append(@, StageUpdate(j, stage[j]))]
    /\ Fail(j, e, "reporter")
    /\ UNCHANGED <<stage, job_input, agent_addresses, progress_callback, agents,
                   ticket_content, start_time, stage_result, stage_time,
                   task_results, invoked>>

\* the agent call started without waiting for the stage's notification
KickoffUnannounced(j, now) ==
    /\ pc[j] \in {"progress", "kickoff"}
    /\ stage[j] < 4
    /\ start_time' = [start_time EXCEPT ![j] = now]
    /\ invoked' = [invoked EXCEPT ![j] = Append(@,
            [role |-> StageRole(stage[j]),
             description |-> TaskDescription(stage[j], ticket_content[j],
                                             stage_result[j])])]
    /\ pc' = [pc EXCEPT ![j] = "running"]
    /\ UNCHANGED <<stage, job_input, agent_addresses, progress_callback, agents,
                   ticket_content, stage_result, stage_time, task_results,
                   notified, returned, raised>>

(***************************************************************************)
(* start_time = time.time(); build the task and the crew; kickoff() begins *)
(***************************************************************************)
Kickoff(j, now) ==
    /\ pc[j] = "kickoff"
    /\ start_time' = [start_time EXCEPT ![j] = now]
    /\ invoked' = [invoked EXCEPT ![j] = Append(@,
            [role |-> StageRole(stage[j]),
             description |-> TaskDescription(stage[j], ticket_content[j],
                                             stage_result[j])])]
    /\ pc' = [pc EXCEPT ![j] = "running"]
    /\ UNCHANGED <<stage, job_input, agent_addresses, progress_callback, agents,
                   ticket_content, stage_result, stage_time, task_results,
                   notified, returned, raised>>

(***************************************************************************)
(* kickoff() returns; the elapsed time is computed                         *)
(***************************************************************************)
KickoffReturns(j, now) ==
    /\ pc[j] = "running"
    /\ ~agents[j][StageRole(stage[j])].raises
    /\ stage_result' = [stage_result EXCEPT ![j] =
            Append(@, agents[j][StageRole(stage[j])].text)]
    /\ stage_time' = [stage_time EXCEPT ![j] = ElapsedMs(start_time[j], now)]
    /\ start_time' = [start_time EXCEPT ![j] = 0]
    /\ pc' = [pc EXCEPT ![j] = "append"]
    /\ UNCHANGED <<stage, job_input, agent_addresses, progress_callback, agents,
                   ticket_content, task_results, notified, invoked, returned,
                   raised>>

(***************************************************************************)
(* kickoff() raises: caught by the except handler of execute               *)
(***************************************************************************)
KickoffRaises(j) ==
    /\ pc[j] = "running"
    /\ agents[j][StageRole(stage[j])].raises
    /\ Fail(j, agents[j][StageRole(stage[j])].text, "agent")
    /\ start_time' = [start_time EXCEPT ![j] = 0]
    /\ UNCHANGED <<stage, job_input, agent_addresses, progress_callback, agents,
                   ticket_content, stage_result, stage_time, task_results,
                   notified, invoked>>

\* task_results = [TaskResult(...)] instead of task_results.append(...)
AppendResultReplacing(j) ==
    /\ pc[j] = "append"
    /\ task_results' = [task_results EXCEPT ![j] =
            <<StageRecord(stage[j], agent_addresses[j], stage_result[j],
                          stage_time[j])>>]
    /\ stage_time' = [stage_time EXCEPT ![j] = 0]
    /\ stage' = [stage EXCEPT ![j] = @ + 1]
    /\ pc' = [pc EXCEPT ![j] = "progress"]
    /\ UNCHANGED <<job_input, agent_addresses, progress_callback, agents,
                   ticket_content, start_time, stage_result, notified, invoked,
                   returned, raised>>

(***************************************************************************)
(* task_results.append(TaskResult(...)); on to the next stage              *)
(***************************************************************************)
AppendResult(j) ==
    /\ pc[j] = "append"
    /\ task_results' = [task_results EXCEPT ![j] = Append(@,
            StageRecord(stage[j], agent_addresses[j], stage_result[j],
                        stage_time[j]))]
    /\ stage_time' = [stage_time EXCEPT ![j] = 0]
    /\ stage' = [stage EXCEPT ![j] = @ + 1]
    /\ pc' = [pc EXCEPT ![j] = "progress"]
    /\ UNCHANGED <<job_input, agent_addresses, progress_callback, agents,
                   ticket_content, start_time, stage_result, notified, invoked,
                   returned, raised>>

(***************************************************************************)
(* the success path after the completion notification: return JobResult    *)
(***************************************************************************)
Finish(j) ==
    /\ pc[j] = "finish"
    /\ returned' = [returned EXCEPT ![j] = Append(@,
            SuccessResult(job_input[j], stage_result[j], task_results[j]))]
    /\ pc' = [pc EXCEPT ![j] = "returned"]
    /\ UNCHANGED <<stage, job_input, agent_addresses, progress_callback, agents,
                   ticket_content, start_time, stage_result, stage_time,
                   task_results, notified, invoked, raised>>

JobInputs ==
    { JobInput(id, t, d, r) : id \in JobIds, t \in Titles, d \in Descriptions,
                              r \in RequirementsSet }

\* no crew other than j's has been constructed
OnlyJob(j) == \A other \in JobIds \ {j} : pc[other] = "new"

\* one crew is constructed and its execute is called once
Next ==
    \E j \in JobIds :
        \/ \E addrs \in AddressArgs, callback \in BOOLEAN,
              behaviours \in [Roles -> AgentBehaviours] :
                 /\ OnlyJob(j) /\ Construct(j, addrs, callback, behaviours)
                 /\ UNCHANGED svars
        \/ \E input \in JobInputs : ExecuteBegin(j, input) /\ UNCHANGED svars
        \/ SendProgress(j) /\ UNCHANGED svars
        \/ \E e \in ReporterErrors : SendProgressRaises(j, e) /\ UNCHANGED svars
        \/ \E now \in Ticks : Kickoff(j, now) /\ UNCHANGED svars
        \/ \E now \in Ticks : KickoffReturns(j, now) /\ UNCHANGED svars
        \/ KickoffRaises(j) /\ UNCHANGED svars
        \/ AppendResult(j) /\ UNCHANGED svars
        \/ Finish(j) /\ UNCHANGED svars

Spec == Init /\ [][Next]_allvars


(***************************************************************************)
(* The service of main.py.  A request is handled by a task of the event    *)
(* loop; a task runs alone until it awaits something that suspends it.     *)
(* execute() contains no await, so the task that calls it keeps the loop   *)
(* from the construction of the crew to the statement after execute.       *)
(***************************************************************************)
ApiKeys == {"", "gsk_test"}
CallbackUrls == {"", "http://backend/callback"}
Endpoints == {"execute", "execute_async"}

\* the stub agents of the service runs: the agents that return all return
\* the same text, and at most one agent raises
ServiceBehaviours ==
    { b \in [Roles -> AgentBehaviours] :
        /\ Cardinality({r \in Roles : b[r].raises}) <= 1
        /\ \A r1, r2 \in Roles :
              (~b[r1].raises /\ ~b[r2].raises) => b[r1].text = b[r2].text }

\* the request bodies of the service runs
ServiceInputs == { i \in JobInputs : i.requirements = "" }

\* a or b, for Optional[str]
OrElse(a, b) == IF a # "" THEN a ELSE b

\* main.py: job_input.callback_url or settings.callback_url
ResolveCallbackUrl(j) == OrElse(request[j].callback_url, settings.callback_url)

\* create_progress_callback: is a callback returned (TRUE) or None (FALSE)
create_progress_callback(url) == url # ""

\* an HTTP POST of the service to the callback receiver
Post(kind, url, body, status) ==
    [kind |-> kind, url |-> url, body |-> body, status |-> status]

\* an HTTP response of the service to its caller
Response(code, body) == [status_code |-> code, body |-> body]

\* the ready queue served also while the running task is in an agent call,
\* as if kickoff() were awaited
ScheduledDuringAgentCall(task) ==
    /\ IF current = NoTask THEN TRUE ELSE pc[current.job] = "running"
    /\ ready # <<>>
    /\ Head(ready) = task

\* the task at the head of the ready queue gets the idle event loop
Scheduled(task) ==
    /\ current = NoTask
    /\ ready # <<>>
    /\ Head(ready) = task

\* job j's crew is running in the task that holds the event loop
Running(j) == current.job = j /\ current.kind \in {"handler", "process"}

(***************************************************************************)
(* a client posts to /execute or /execute/async: a handler task is ready   *)
(***************************************************************************)
Submit(j, endpoint, input, url) ==
    /\ request[j] = NoRequest
    /\ input.job_id = j
    /\ request' = [request EXCEPT ![j] =
            [endpoint |-> endpoint, input |-> input, callback_url |-> url]]
    /\ ready' = Append(ready, Task("handler", j, 0))
    /\ UNCHANGED <<settings, response, current, posts, received>>
    /\ UNCHANGED vars

(***************************************************************************)
(* either handler, groq_api_key not configured: HTTPException(500)         *)
(***************************************************************************)
RejectNoKey(j) ==
    /\ Scheduled(Task("handler", j, 0))
    /\ settings.groq_api_key = ""
    /\ response' = [response EXCEPT ![j] =
            Append(@, Response(500, "GROQ_API_KEY not configured"))]
    /\ ready' = Tail(ready)
    /\ UNCHANGED <<settings, request, current, posts, received>>
    /\ UNCHANGED vars

(***************************************************************************)
(* execute_job up to the call of execute: the callback and the crew        *)
(***************************************************************************)
HandleExecute(j, behaviours) ==
    /\ Scheduled(Task("handler", j, 0))
    /\ request[j].endpoint = "execute"
    /\ settings.groq_api_key # ""
    /\ current' = Task("handler", j, 0)
    /\ ready' = Tail(ready)
    /\ Construct(j, [is_none |-> TRUE, items |-> {}],
                 create_progress_callback(ResolveCallbackUrl(j)), behaviours)
    /\ UNCHANGED <<settings, request, response, posts, received>>

\* execute_job turning an unsuccessful result into an HTTPException
RespondFaultOnFailure(j) ==
    /\ current = Task("handler", j, 0)
    /\ pc[j] = "returned"
    /\ response' = [response EXCEPT ![j] = Append(@,
            IF returned[j][Len(returned[j])].success
            THEN Response(200, returned[j][Len(returned[j])])
            ELSE Response(500, "Job execution failed"))]
    /\ current' = NoTask
    /\ UNCHANGED <<settings, request, ready, posts, received>>
    /\ UNCHANGED vars

(***************************************************************************)
(* execute_job after execute returned: return result                       *)
(***************************************************************************)
Respond(j) ==
    /\ current = Task("handler", j, 0)
    /\ pc[j] = "returned"
    /\ response' = [response EXCEPT ![j] =
            Append(@, Response(200, returned[j][Len(returned[j])]))]
    /\ current' = NoTask
    /\ UNCHANGED <<settings, request, ready, posts, received>>
    /\ UNCHANGED vars

\* execute_job_async without the check of groq_api_key
QueueAsyncUnchecked(j) ==
    /\ Scheduled(Task("handler", j, 0))
    /\ request[j].endpoint = "execute_async"
    /\ response' = [response EXCEPT ![j] = Append(@, Response(200, "queued"))]
    /\ ready' = Append(Tail(ready), Task("process", j, 0))
    /\ UNCHANGED <<settings, request, current, posts, received>>
    /\ UNCHANGED vars

(***************************************************************************)
(* execute_job_async: add_task(process_job) and the "queued" response;     *)
(* the background task runs after the response has been sent               *)
(***************************************************************************)
QueueAsync(j) ==
    /\ Scheduled(Task("handler", j, 0))
    /\ request[j].endpoint = "execute_async"
    /\ settings.groq_api_key # ""
    /\ response' = [response EXCEPT ![j] = Append(@, Response(200, "queued"))]
    /\ ready' = Append(Tail(ready), Task("process", j, 0))
    /\ UNCHANGED <<settings, request, current, posts, received>>
    /\ UNCHANGED vars

(***************************************************************************)
(* process_job up to the call of execute: the callback and the crew        *)
(***************************************************************************)
ProcessJob(j, behaviours) ==
    /\ Scheduled(Task("process", j, 0))
    /\ current' = Task("process", j, 0)
    /\ ready' = Tail(ready)
    /\ Construct(j, [is_none |-> TRUE, items |-> {}],
                 create_progress_callback(ResolveCallbackUrl(j)), behaviours)
    /\ UNCHANGED <<settings, request, response, posts, received>>

(***************************************************************************)
(* await crew.execute(job_input), in either task                           *)
(***************************************************************************)
CallExecute(j) ==
    /\ Running(j)
    /\ ExecuteBegin(j, request[j].input)
    /\ UNCHANGED svars

\* a callback that posts the update itself and returns when the POST ended
NotifyProgressBlocking(j) ==
    /\ Running(j)
    /\ \A i \in 1..Len(posts[j]) : posts[j][i].status \in {"delivered", "failed"}
    /\ SendProgress(j)
    /\ IF progress_callback[j]
       THEN posts' = [posts EXCEPT ![j] = Append(@,
                Post("progress", ResolveCallbackUrl(j),
                     StageUpdate(j, stage[j]), "posting"))]
       ELSE UNCHANGED posts
    /\ UNCHANGED <<settings, request, response, ready, current, received>>

(***************************************************************************)
(* _send_progress with the callback of create_progress_callback:           *)
(* asyncio.create_task(send_progress_callback(callback_url, update))       *)
(***************************************************************************)
NotifyProgress(j) ==
    /\ Running(j)
    /\ SendProgress(j)
    /\ IF progress_callback[j]
       THEN /\ posts' = [posts EXCEPT ![j] = Append(@,
                    Post("progress", ResolveCallbackUrl(j),
                         StageUpdate(j, stage[j]), "created"))]
            /\ ready' = Append(ready, Task("progress", j, Len(posts[j]) + 1))
       ELSE UNCHANGED <<posts, ready>>
    /\ UNCHANGED <<settings, request, response, current, received>>

(***************************************************************************)
(* the other statements of execute, run by the task that holds the loop;   *)
(* the clock of the service runs is held at 0                              *)
(***************************************************************************)
AgentCall(j) == Running(j) /\ Kickoff(j, 0) /\ UNCHANGED svars
AgentReturns(j) == Running(j) /\ KickoffReturns(j, 0) /\ UNCHANGED svars
AgentRaises(j) == Running(j) /\ KickoffRaises(j) /\ UNCHANGED svars
RecordStage(j) == Running(j) /\ AppendResult(j) /\ UNCHANGED svars
ReturnSuccess(j) == Running(j) /\ Finish(j) /\ UNCHANGED svars

(***************************************************************************)
(* process_job after execute returned: post the result if a callback URL   *)
(* is configured; the task is suspended in client.post                     *)
(***************************************************************************)
PostResult(j) ==
    /\ current = Task("process", j, 0)
    /\ pc[j] = "returned"
    /\ posts' = [posts EXCEPT ![j] =
            IF ResolveCallbackUrl(j) # ""
            THEN Append(@, Post("result", <<ResolveCallbackUrl(j), "/result">>,
                                returned[j][Len(returned[j])], "posting"))
            ELSE @]
    /\ current' = NoTask
    /\ UNCHANGED <<settings, request, response, ready, received>>
    /\ UNCHANGED vars

(***************************************************************************)
(* send_progress_callback runs up to await client.post                     *)
(***************************************************************************)
StartDelivery(j, i) ==
    /\ Scheduled(Task("progress", j, i))
    /\ posts' = [posts EXCEPT ![j][i].status = "posting"]
    /\ ready' = Tail(ready)
    /\ UNCHANGED <<settings, request, response, current, received>>
    /\ UNCHANGED vars

(***************************************************************************)
(* a POST in flight reaches the receiver                                   *)
(***************************************************************************)
PostArrives(j, i) ==
    /\ i \in 1..Len(posts[j])
    /\ posts[j][i].status = "posting"
    /\ posts' = [posts EXCEPT ![j][i].status = "delivered"]
    /\ received' = [received EXCEPT ![j] = Append(@, posts[j][i])]
    /\ UNCHANGED <<settings, request, response, ready, current>>
    /\ UNCHANGED vars

(***************************************************************************)
(* a POST in flight raises (refused, timed out): caught and logged         *)
(***************************************************************************)
PostFails(j, i) ==
    /\ i \in 1..Len(posts[j])
    /\ posts[j][i].status = "posting"
    /\ posts' = [posts EXCEPT ![j][i].status = "failed"]
    /\ UNCHANGED <<settings, request, response, ready, current, received>>
    /\ UNCHANGED vars

\* the positions of the POSTs of one job: four updates and the result
PostIds == 1..5

ServiceInit ==
    /\ CrewInit
    /\ ServiceIdle
    /\ settings \in { Settings(k, u) : k \in ApiKeys, u \in CallbackUrls }

\* no client other than j's has sent a request
OnlyClient(j) == \A other \in JobIds \ {j} : request[other] = NoRequest

\* one request, followed through the service and its transport
ServiceNext ==
    \E j \in JobIds :
        \/ \E endpoint \in Endpoints, input \in ServiceInputs,
              url \in CallbackUrls :
                 OnlyClient(j) /\ Submit(j, endpoint, input, url)
        \/ RejectNoKey(j)
        \/ \E behaviours \in ServiceBehaviours : HandleExecute(j, behaviours)
        \/ Respond(j)
        \/ QueueAsync(j)
        \/ \E behaviours \in ServiceBehaviours : ProcessJob(j, behaviours)
        \/ CallExecute(j)
        \/ NotifyProgress(j)
        \/ AgentCall(j)
        \/ AgentReturns(j)
        \/ AgentRaises(j)
        \/ RecordStage(j)
        \/ ReturnSuccess(j)
        \/ PostResult(j)
        \/ \E i \in PostIds : StartDelivery(j, i)
        \/ \E i \in PostIds : PostArrives(j, i)
        \/ \E i \in PostIds : PostFails(j, i)

ServiceSpec == ServiceInit /\ [][ServiceNext]_allvars

\* a step of the task that runs job j's crew, from the call of execute to
\* the end of the task
TaskStep(j) ==
    \/ CallExecute(j)
    \/ NotifyProgress(j)
    \/ AgentCall(j)
    \/ AgentReturns(j)
    \/ AgentRaises(j)
    \/ RecordStage(j)
    \/ ReturnSuccess(j)
    \/ Respond(j)
    \/ PostResult(j)

(***************************************************************************)
(* The running task is not suspended before it ends (execute has no await) *)
(* and every agent call returns or raises.  Nothing is assumed of the      *)
(* transport: a POST may stay in flight for ever.                          *)
(***************************************************************************)
FairServiceSpec == ServiceSpec /\ \A j \in JobIds : WF_allvars(TaskStep(j))

(***************************************************************************)
(* Two requests on the one event loop.  What becomes of a POST in flight   *)
(* is left out: no statement of the handlers or of execute reads it.       *)
(***************************************************************************)
ConcurrentNext ==
    \E j \in JobIds :
        \/ \E endpoint \in Endpoints, input \in ServiceInputs,
              url \in CallbackUrls : Submit(j, endpoint, input, url)
        \/ RejectNoKey(j)
        \/ \E behaviours \in ServiceBehaviours : HandleExecute(j, behaviours)
        \/ Respond(j)
        \/ QueueAsync(j)
        \/ \E behaviours \in ServiceBehaviours : ProcessJob(j, behaviours)
        \/ CallExecute(j)
        \/ NotifyProgress(j)
        \/ AgentCall(j)
        \/ AgentReturns(j)
        \/ AgentRaises(j)
        \/ RecordStage(j)
        \/ ReturnSuccess(j)
        \/ PostResult(j)
        \/ \E i \in PostIds : StartDelivery(j, i)

ConcurrentSpec == ServiceInit /\ [][ConcurrentNext]_allvars


(***************************************************************************)
(* Vocabulary of the properties.                                           *)
(***************************************************************************)
Returned(j) == pc[j] = "returned"
Result(j) == returned[j][1]

\* the text the stub agent of stage k returns, as execute records it
AgentText(j, k) == <<agents[j][StageRole(k)].text>>

\* all three agent calls of job j returned
AllAgentsReturned(j) ==
    /\ Len(invoked[j]) = 3
    /\ \A k \in 1..3 : ~agents[j][StageRole(k)].raises
    /\ pc[j] \notin {"running"}

\* the agent call of stage k was made and raised
AgentRaisedAt(j, k) ==
    /\ Len(invoked[j]) = k
    /\ agents[j][StageRole(k)].raises
    /\ pc[j] = "returned"

\* some agent call of job j raised
SomeAgentRaised(j) == \E k \in 1..3 : AgentRaisedAt(j, k)

\* the elements of a sequence
Range(seq) == { seq[i] : i \in 1..Len(seq) }

\* C1: whenever all three agent calls returned, execute returns success=true
\* with exactly the three records router, worker, qa (configured address,
\* fixed task name, tokens_used = 0).
C1_AllAgentsReturnedMeansSuccess ==
    \A j \in JobIds :
        (Returned(j) /\ AllAgentsReturned(j)) =>
            /\ Result(j).success
            /\ Len(Result(j).task_results) = 3
            /\ \A k \in 1..3 :
                  /\ Result(j).task_results[k].agent_address
                        = Lookup(agent_addresses[j], StageRole(k))
                  /\ Result(j).task_results[k].task_name = StageTaskName(k)
                  /\ Result(j).task_results[k].tokens_used = 0

C3_AgentFailureResult ==
    \A j \in JobIds : \A k \in 1..3 :
        AgentRaisedAt(j, k) =>
            /\ Len(returned[j]) = 1
            /\ ~Result(j).success
            /\ Result(j).job_id = job_input[j].job_id
            /\ Result(j).final_output
                  = <<"Error: ", agents[j][StageRole(k)].text>>
            /\ Len(Result(j).task_results) = k - 1
            /\ \A i \in 1..(k - 1) :
                  /\ Result(j).task_results[i].task_name = StageTaskName(i)
                  /\ Result(j).task_results[i].output = AgentText(j, i)
                  /\ Result(j).task_results[i].agent_address
                        = Lookup(agent_addresses[j], StageRole(i))

\* the agent of stage 2 raised and the job came back with stage 1's record
C3_Witness ==
    \E j \in JobIds :
        /\ AgentRaisedAt(j, 2)
        /\ Len(Result(j).task_results) = 1
        /\ job_input[j].job_id = "J2"

\* the number of stages that complete when no notification fails: the agents
\* before the first one that raises
CompletedStages(j) ==
    IF agents[j]["router"].raises THEN 0
    ELSE IF agents[j]["worker"].raises THEN 1
    ELSE IF agents[j]["qa"].raises THEN 2
    ELSE 3

\* C4: whatever the reporter does, the stages that run and the returned
\* result are those of the run of the same job and agents in which no
\* notification fails.
C4_DeliveryFailureIsHarmless ==
    \A j \in JobIds :
        Returned(j) =>
            LET n == CompletedStages(j) IN
            /\ Len(invoked[j]) = (IF n < 3 THEN n + 1 ELSE 3)
            /\ Result(j).success = (n = 3)
            /\ Len(Result(j).task_results) = n
            /\ \A i \in 1..Len(Result(j).task_results) :
                  Result(j).task_results[i].output = AgentText(j, i)
            /\ Result(j).final_output
                  = (IF n = 3 THEN AgentText(j, 3)
                     ELSE <<"Error: ", agents[j][StageRole(n + 1)].text>>)

\* C5: the returned success is false if and only if one of the agent calls
\* raised.
C5_OnlyAgentFailuresFail ==
    \A j \in JobIds :
        Returned(j) => (~Result(j).success <=> SomeAgentRaised(j))

\* C6: a returned result has at most 3 records, exactly 3 on success and
\* 0, 1 or 2 on failure.
C6_ResultLength ==
    \A j \in JobIds :
        Returned(j) =>
            /\ Len(Result(j).task_results) <= 3
            /\ Result(j).success => Len(Result(j).task_results) = 3
            /\ ~Result(j).success =>
                  /\ Len(Result(j).task_results) \in 0..2
                  /\ Len(Result(j).task_results) = Len(stage_result[j])


\* the moves of the pipeline state machine
PhaseMoves ==
    { <<"Idle", "Routing">>, <<"Routing", "Processing">>,
      <<"Processing", "QA">>, <<"QA", "Complete">>,
      <<"Routing", "Failed">>, <<"Processing", "Failed">>,
      <<"QA", "Failed">> }

\* an agent call of job j has raised
AgentHasRaised(j) == raised[j] = "agent"

\* the clauses of C7 about the agent calls: no agent is invoked twice, the
\* agent of the next stage is invoked only after the previous one returned,
\* and nothing is invoked or notified after an agent call raised
AgentCallOrder(j) ==
    LET before == invoked[j]
        after == invoked[j]'
    IN  /\ \A a, b \in 1..Len(after) : after[a].role = after[b].role => a = b
        /\ Len(after) > Len(before) =>
              /\ Len(stage_result[j]) = Len(before)
              /\ after[Len(after)].role = StageRole(Len(before) + 1)
        /\ AgentHasRaised(j) => (after = before /\ notified[j]' = notified[j])

\* C7: the pipeline only moves Idle -> Routing -> Processing -> QA ->
\* Complete or from the active stage to Failed, Complete and Failed are
\* terminal, every agent is invoked at most once and in stage order, and
\* after an agent call raised no agent is invoked and no update is emitted.
C7_PipelineMoves ==
    [][\A j \in JobIds :
          /\ (Phase(j)' = Phase(j) \/ <<Phase(j), Phase(j)'>> \in PhaseMoves)
          /\ AgentCallOrder(j)]_vars

\* seq holds sub as a contiguous part
Contains(seq, sub) ==
    \E i \in 1..(Len(seq) - Len(sub) + 1) :
        SubSeq(seq, i, i + Len(sub) - 1) = sub

\* C8: the task of stage 1 holds the ticket text and no stage output, the
\* task of stage 2 the ticket text and stage 1's output only, the task of
\* stage 3 the ticket text and stage 2's output only; every recorded output
\* is what its agent returned; on success final_output is stage 3's output,
\* the output of the last record.
C8_OutputsThreaded ==
    \A j \in JobIds :
        /\ \A i \in 1..Len(invoked[j]) :
              /\ Contains(invoked[j][i].description,
                          TicketContent(job_input[j]))
              /\ Range(invoked[j][i].description) \cap Outputs
                    = (IF i = 1 THEN {}
                       ELSE {agents[j][StageRole(i - 1)].text})
        /\ \A i \in 1..Len(task_results[j]) :
              task_results[j][i].output = AgentText(j, i)
        /\ (Returned(j) /\ Result(j).success) =>
              /\ Result(j).final_output = AgentText(j, 3)
              /\ Result(j).final_output
                    = Result(j).task_results[Len(Result(j).task_results)].output

\* a successful job whose three stage outputs are not all the same
C8_Witness ==
    \E j \in JobIds :
        /\ Returned(j) /\ Result(j).success
        /\ agents[j]["router"].text # agents[j]["worker"].text
        /\ job_input[j].requirements # ""

\* the records with every duration multiplied by k
Scaled(results, k) ==
    [i \in 1..Len(results) |->
        [results[i] EXCEPT !.execution_time_ms = @ * k]]

RECURSIVE MantDiffFrom(_, _, _, _)
\* a - b over the limbs i..1, acc the difference of the limbs above; the
\* result is cut off at +-Limb once it is that large
MantDiffFrom(a, b, i, acc) ==
    IF i = 0 THEN acc
    ELSE IF acc >= 2 THEN Limb
    ELSE IF acc <= -2 THEN -Limb
    ELSE MantDiffFrom(a, b, i - 1, acc * Limb + (a[i] - b[i]))

\* |a - b| of two limb numbers (Limb when it is Limb or more)
MantDistance(a, b) ==
    LET d == MantDiffFrom(a, b, 5, 0)
    IN  IF d >= Limb \/ d <= -Limb THEN Limb ELSE IF d < 0 THEN -d ELSE d

\* the number of doubles one steps over from a to b (Limb when far apart)
StepsApart(a, b) ==
    IF a.sign # b.sign THEN Limb
    ELSE IF a.sign = 0 THEN 0
    ELSE IF a.exp = b.exp THEN MantDistance(a.mant, b.mant)
    ELSE IF a.exp = b.exp + 1
        THEN MantDistance(<<0, 0, 0, 0, 2>>, b.mant)
                + MantDistance(a.mant, <<0, 0, 0, 0, 1>>)
    ELSE IF b.exp = a.exp + 1
        THEN MantDistance(<<0, 0, 0, 0, 2>>, a.mant)
                + MantDistance(b.mant, <<0, 0, 0, 0, 1>>)
    ELSE Limb

\* the three durations of a successful result, summed
ThreeStageSum(tr) ==
    tr[1].execution_time_ms + tr[2].execution_time_ms
        + tr[3].execution_time_ms

\* C9 as stated: on success total_cost_usd is the fixed rate times the sum
\* of the three recorded durations, and multiplying the three durations by
\* k multiplies the cost by k.
C9_CostScalesExactly ==
    \A j \in JobIds :
        (Returned(j) /\ Result(j).success) =>
            LET tr == Result(j).task_results IN
            /\ Result(j).total_cost_usd
                  = FloatMulInt(ThreeStageSum(tr), COST_RATE)
            /\ \A k \in 1..MaxScale :
                  EstimatedCost(Scaled(tr, k))
                      = FloatMulInt(k, Result(j).total_cost_usd)

\* C9 amended: on success total_cost_usd is the double product of the sum
\* of the three recorded durations and 0.00001, and the cost of the
\* durations multiplied by k is k times the cost up to the rounding of the
\* double product: the same double or the one next to it.
C9_CostLinearUpToRounding ==
    \A j \in JobIds :
        (Returned(j) /\ Result(j).success) =>
            LET tr == Result(j).task_results IN
            /\ Result(j).total_cost_usd
                  = FloatMulInt(ThreeStageSum(tr), COST_RATE)
            /\ \A k \in 1..MaxScale :
                  StepsApart(EstimatedCost(Scaled(tr, k)),
                             FloatMulInt(k, Result(j).total_cost_usd)) <= 1

\* a successful job whose scaled cost is not the multiple of its cost
C9_Witness ==
    \E j \in JobIds :
        /\ Returned(j) /\ Result(j).success
        /\ Result(j).total_cost_usd.sign = 1
        /\ \E k \in 1..MaxScale :
              EstimatedCost(Scaled(Result(j).task_results, k))
                  # FloatMulInt(k, Result(j).total_cost_usd)

\* C10: on the failure path total_cost_usd is 0.0 whatever the recorded
\* stages and their durations.
C10_FailureCostZero ==
    \A j \in JobIds :
        (Returned(j) /\ ~Result(j).success) =>
            Result(j).total_cost_usd = ZeroDouble

\* a failed job whose recorded stages took time
C10_Witness ==
    \E j \in JobIds :
        /\ Returned(j) /\ ~Result(j).success
        /\ Len(Result(j).task_results) = 2
        /\ SumTimes(Result(j).task_results) > 0

(***************************************************************************)
(* Vocabulary of the service properties.                                   *)
(***************************************************************************)
\* the message of the exception that made job j fail
ErrorMessage(j) == agents[j][StageRole(stage[j])].text

\* the number of characters of the scheme prefix "ipfs://"
SchemeLen(scheme) == IF scheme = "ipfs://" THEN 7 ELSE 0

\* C11: result_hash is "ipfs://" followed by the first 46 characters of the
\* SHA-256 hexdigest of its content and of nothing else (7 + 46 characters),
\* the content being final_output on success and "error:" + message on
\* failure, which is not the failure final_output; two jobs with the same
\* content have the same result_hash whatever their job_id and their order.
C11_ResultHash ==
    /\ \A j \in JobIds :
          Returned(j) =>
             LET r == Result(j)
                 content == IF r.success THEN r.final_output
                            ELSE <<"error:", ErrorMessage(j)>>
             IN  /\ r.result_hash =
                        [scheme |-> "ipfs://",
                         digest |-> [of |-> content, len |-> 46]]
                 /\ SchemeLen(r.result_hash.scheme) + r.result_hash.digest.len
                        = 7 + 46
                 /\ ~r.success => /\ r.final_output = <<"Error: ", ErrorMessage(j)>>
                                  /\ r.result_hash.digest.of # r.final_output
    /\ \A j1, j2 \in JobIds :
          (Returned(j1) /\ Returned(j2)
              /\ Result(j1).result_hash.digest.of
                    = Result(j2).result_hash.digest.of)
          => Result(j1).result_hash = Result(j2).result_hash

\* two jobs that failed with the same message after different numbers of
\* stages, the second after the first was answered
C11_Witness ==
    /\ Returned("J1") /\ Returned("J2")
    /\ Len(response["J1"]) = 1 /\ Len(response["J2"]) = 0
    /\ ~Result("J1").success /\ ~Result("J2").success
    /\ Len(Result("J1").task_results) # Len(Result("J2").task_results)
    /\ Result("J1").result_hash = Result("J2").result_hash

\* the records execute appends for the first n stages of job j, from the
\* texts of j's own agents (the clock of the service runs is held at 0)
OwnRecords(j, n) ==
    [k \in 1..n |-> TaskResult(Lookup(DEFAULT_AGENT_ADDRESSES, StageRole(k)),
                               StageTaskName(k), AgentText(j, k), 0, 0)]

\* the updates execute passes to the callback for the first n notifications
OwnUpdates(j, n) ==
    [k \in 1..n |-> ProgressUpdate(j, StageName(k), StageAgentId(k),
                                   StageMessage(k), StageProgress(k))]

\* the number of stages of job j whose agent returns
StagesBeforeRaise(j) ==
    IF \E k \in 1..3 : agents[j][StageRole(k)].raises
    THEN (CHOOSE k \in 1..3 : agents[j][StageRole(k)].raises) - 1
    ELSE 3

\* C12: with two requests on the service, at every point each job's records
\* are those of its own agents in stage order, each job's progress sequence
\* and the deliveries created for it are its own updates in order, and each
\* returned JobResult carries its own job_id and its own records.
C12_JobsIndependent ==
    \A j \in JobIds :
        /\ task_results[j] = OwnRecords(j, Len(task_results[j]))
        /\ notified[j] = OwnUpdates(j, Len(notified[j]))
        /\ \A i \in 1..Len(posts[j]) :
              posts[j][i].kind = "progress" =>
                  /\ posts[j][i].body = OwnUpdates(j, i)[i]
                  /\ posts[j][i].url = ResolveCallbackUrl(j)
        /\ Returned(j) =>
              /\ Len(returned[j]) = 1
              /\ Result(j).job_id = j
              /\ Result(j).task_results = OwnRecords(j, StagesBeforeRaise(j))
              /\ progress_callback[j] =>
                    notified[j] = OwnUpdates(j,
                        IF Result(j).success THEN 4 ELSE StagesBeforeRaise(j) + 1)

\* both jobs returned with different outputs and progress sequences, the
\* second request having arrived while the first job was executing (its
\* handler was queued between the first job's delivery tasks)
C12_Witness ==
    /\ Returned("J1") /\ Returned("J2")
    /\ Result("J1").success /\ Result("J2").success
    /\ Result("J1").final_output # Result("J2").final_output
    /\ Len(notified["J1"]) = 4 /\ Len(notified["J2"]) = 4
    /\ ready # <<>>
    /\ Head(ready) = Task("progress", "J1", 2)

\* the caller of job j got exactly one response: status 200 with body r
Answered(j, r) ==
    /\ Len(response[j]) = 1
    /\ response[j][1].status_code = 200
    /\ response[j][1].body = r

\* the task that ran job j's execute has finished
TaskDone(j) == Returned(j) /\ current.job # j

\* the positions of the result POSTs made for job j
ResultPosts(j) == { i \in 1..Len(posts[j]) : posts[j][i].kind = "result" }

\* C13: the terminal JobResult of an accepted job is emitted exactly once:
\* /execute answers with it once, and the task of /execute/async, once the
\* pipeline has returned, makes the result-delivery call exactly once.
C13_ResultEmittedExactlyOnce ==
    \A j \in JobIds :
        /\ Len(returned[j]) <= 1
        /\ ResultPosts(j) # {} => Returned(j)
        /\ TaskDone(j) =>
              IF request[j].endpoint = "execute"
              THEN /\ Answered(j, Result(j))
                   /\ ResultPosts(j) = {}
              ELSE /\ Cardinality(ResultPosts(j)) = 1
                   /\ \A i \in ResultPosts(j) : posts[j][i].body = Result(j)

\* C14: when groq_api_key is not configured neither endpoint starts a job:
\* every handled request is answered with the error (status 500) and no
\* crew is constructed, no agent invoked, no ProgressUpdate emitted, no
\* background task queued and no POST made.
C14_NoKeyNoJob ==
    settings.groq_api_key = "" =>
        /\ current = NoTask
        /\ \A i \in 1..Len(ready) : ready[i].kind = "handler"
        /\ \A j \in JobIds :
              /\ pc[j] = "new"
              /\ invoked[j] = <<>> /\ notified[j] = <<>> /\ posts[j] = <<>>
              /\ returned[j] = <<>>
              /\ response[j] \in
                    {<<>>, <<Response(500, "GROQ_API_KEY not configured")>>}
              /\ (request[j] # NoRequest /\ response[j] = <<>>)
                    => \E i \in 1..Len(ready) : ready[i] = Task("handler", j, 0)

\* without the key, a request to each endpoint (one with a callback URL)
\* has been rejected
C14_Witness ==
    /\ settings.groq_api_key = ""
    /\ request["J1"].endpoint = "execute"
    /\ request["J2"].endpoint = "execute_async"
    /\ request["J2"].callback_url # ""
    /\ \A j \in JobIds : Len(response[j]) = 1 /\ response[j][1].status_code = 500

\* execute of job j has been called
Started(j) == pc[j] \notin {"new", "idle"}

\* r is a JobResult of job j from which the caller can tell how far j ran
WellFormed(r, j) ==
    /\ r.job_id = j
    /\ r.success \in BOOLEAN
    /\ r.result_hash.scheme = "ipfs://"
    /\ IF r.success
       THEN /\ Len(r.task_results) = 3
            /\ r.final_output = r.task_results[3].output
       ELSE /\ Len(r.final_output) = 2 /\ r.final_output[1] = "Error: "
            /\ Len(r.task_results) = StagesBeforeRaise(j)
            /\ Len(r.task_results) \in 0..2

\* job j reached Complete or Failed and its caller has the JobResult
Terminated(j) ==
    /\ Returned(j) /\ TaskDone(j)
    /\ Phase(j) \in {"Complete", "Failed"}
    /\ WellFormed(Result(j), j)
    /\ request[j].endpoint = "execute" =>
          Answered(j, Result(j))

\* C15: if every agent call returns or raises, every started job eventually
\* reaches Complete or Failed and its caller receives a well-formed
\* JobResult (never a fault) that tells 'no stages ran' from 'ran partway'.
C15_StartedJobsTerminate == \A j \in JobIds : Started(j) ~> Terminated(j)

\* /execute answered with the result of a job that failed at its second stage
C15_Witness ==
    \E j \in JobIds :
        /\ Terminated(j)
        /\ request[j].endpoint = "execute"
        /\ ~Result(j).success
        /\ Len(Result(j).task_results) = 1

\* the sequence seq[j] gets its n-th element in this step
Grows(seq, j, n) == Len(seq[j]) = n - 1 /\ Len(seq'[j]) = n

\* C16: within a job with a reporter, the update for entering stage S is
\* emitted before S's agent is invoked and after the record of stage S-1
\* was appended; the record of S is appended only after S's agent call
\* returned; the 'complete' update (100) is emitted after the third record
\* was appended and before execute returns.
C16_StageOrdering ==
    [][\A j \in JobIds : \A k \in 1..4 :
          /\ Grows(notified, j, k) =>
                /\ notified'[j][k].stage = StageName(k)
                /\ Len(invoked[j]) = k - 1
                /\ Len(task_results[j]) = k - 1
                /\ returned[j] = <<>>
          /\ (Grows(invoked, j, k) /\ progress_callback[j]) =>
                /\ Len(notified[j]) = k
                /\ notified[j][k].stage = StageName(k)
          /\ Grows(task_results, j, k) =>
                /\ Len(invoked[j]) = k
                /\ Len(stage_result[j]) = k
          /\ (Grows(returned, j, 1) /\ returned'[j][1].success
                /\ progress_callback[j]) =>
                /\ Len(task_results[j]) = 3
                /\ Len(notified[j]) = 4
                /\ notified[j][4].stage = "complete"
                /\ notified[j][4].progress = 100
      ]_allvars

\* a job with a reporter returned successfully after its four updates
C16_Witness ==
    \E j \in JobIds :
        /\ Returned(j) /\ Result(j).success
        /\ progress_callback[j]
        /\ Len(notified[j]) = 4 /\ Len(invoked[j]) = 3

\* seq is an initial segment of longer
IsPrefix(seq, longer) ==
    /\ Len(seq) <= Len(longer)
    /\ \A i \in 1..Len(seq) : seq[i] = longer[i]

\* record is the record of stage k of job j
IsStageRecord(record, j, k) ==
    /\ record.task_name = StageTaskName(k)
    /\ record.agent_address = Lookup(agent_addresses[j], StageRole(k))
    /\ record.output = AgentText(j, k)

\* C17: task_results is append-only in execution order: at every point it
\* holds the records of stages 1..n (n <= 3), a step leaves it unchanged or
\* appends the record of the stage whose agent call has just returned, and
\* the JobResult returned, on failure too, carries the list as it stands.
C17_AppendOnly ==
    [][\A j \in JobIds :
          /\ Len(task_results'[j]) <= 3
          /\ \A k \in 1..Len(task_results'[j]) :
                IsStageRecord(task_results'[j][k], j, k)
          /\ IsPrefix(task_results[j], task_results'[j])
          /\ Len(task_results'[j]) <= Len(task_results[j]) + 1
          /\ \A k \in 1..3 : Grows(task_results, j, k) =>
                /\ pc[j] = "append" /\ stage[j] = k
                /\ Len(stage_result[j]) = k
                /\ Len(invoked[j]) = k
          /\ Grows(returned, j, 1) =>
                /\ returned'[j][1].task_results = task_results[j]
                /\ task_results'[j] = task_results[j]
      ]_allvars

\* the job failed at its third stage and returned the two records it had
C17_Witness ==
    \E j \in JobIds :
        /\ Returned(j) /\ ~Result(j).success
        /\ raised[j] = "agent"
        /\ Len(task_results[j]) = 2
        /\ Result(j).task_results = task_results[j]

\* the POSTs of job j's updates that have not ended (created or in flight)
PendingDeliveries(j) ==
    { i \in 1..Len(posts[j]) :
        posts[j][i].kind = "progress"
            /\ posts[j][i].status \in {"created", "posting"} }

\* C18: progress delivery is fire-and-forget: whatever the state of the
\* deliveries of its updates (not started, in flight for ever, failed), the
\* task that runs a job can always take its next step, up to the terminal
\* state and the end of the task.
C18_DeliveryNeverAwaited ==
    \A j \in JobIds :
        (Running(j) /\ Started(j)) => ENABLED TaskStep(j)

\* the job reached its terminal state and its task ended while none of the
\* deliveries of its four updates had ended
C18_Witness ==
    \E j \in JobIds :
        /\ TaskDone(j) /\ Result(j).success
        /\ Len(notified[j]) = 4
        /\ Cardinality(PendingDeliveries(j)) = 4

\* C19: the receiver of one job's POSTs sees the progress values in
\* non-decreasing order, and no update after the job's terminal result.
C19_ProgressArrivesInOrder ==
    \A j \in JobIds :
        \A a, b \in 1..Len(received[j]) :
            a < b =>
                /\ (received[j][a].kind = "progress"
                        /\ received[j][b].kind = "progress")
                   => received[j][a].body.progress <= received[j][b].body.progress
                /\ ~(received[j][a].kind = "result"
                        /\ received[j][b].kind = "progress")

\* job j starts or advances: its handler or background task begins, or
\* the task that runs it takes a step
JobAdvances(j) ==
    \/ \E behaviours \in ServiceBehaviours : HandleExecute(j, behaviours)
    \/ QueueAsync(j)
    \/ \E behaviours \in ServiceBehaviours : ProcessJob(j, behaviours)
    \/ TaskStep(j)

\* job j has been submitted to a service with the key and is not finished
Unfinished(j) ==
    /\ request[j] # NoRequest
    /\ settings.groq_api_key # ""
    /\ ~Returned(j)

\* C20: distinct jobs execute concurrently: while the agent call of one job
\* is in flight, another submitted job that has not finished can start or
\* take its next step.
C20_JobsRunConcurrently ==
    \A a, b \in JobIds :
        (a # b /\ pc[a] = "running" /\ Unfinished(b)) => ENABLED JobAdvances(b)

\* C21: every recorded stage result has a non-negative execution_time_ms,
\* whatever the two readings of the wall clock taken around the agent call.
C21_ExecutionTimeNonNegative ==
    \A j \in JobIds :
        \A k \in 1..Len(task_results[j]) :
            /\ task_results[j][k].execution_time_ms \in Int
            /\ task_results[j][k].execution_time_ms >= 0

\* the progress values of the updates emitted for job j
ProgressValues(j) == [i \in 1..Len(notified[j]) |-> notified[j][i].progress]

\* C22: with a reporter that does not raise, at every point the number of
\* updates emitted minus the number of records is 0 or 1, and when the agent
\* of stage k raised the progress values emitted are the first k of
\* 10, 40, 70 and task_results has k - 1 entries.
C22_UpdatesLeadRecordsByOne ==
    \A j \in JobIds :
        (progress_callback[j] /\ raised[j] # "reporter") =>
            /\ Len(notified[j]) - Len(task_results[j]) \in {0, 1}
            /\ raised[j] = "agent" =>
                  LET k == StagesBeforeRaise(j) + 1
                  IN  /\ ProgressValues(j) = SubSeq(<<10, 40, 70>>, 1, k)
                      /\ Len(task_results[j]) = k - 1
                      /\ Result(j).task_results = task_results[j]

\* with a reporter attached, the agent of the third stage raised
C22_Witness ==
    \E j \in JobIds :
        /\ progress_callback[j] /\ raised[j] = "agent"
        /\ Returned(j)
        /\ Len(notified[j]) = 3 /\ Len(task_results[j]) = 2

\* C23: execute has no suspension point, so on the one event loop no
\* delivery task of a job's updates starts its POST (and no update reaches
\* the receiver) before execute has returned the job's JobResult and the
\* task that called it has given up the loop.
C23_NoDeliveryBeforeReturn ==
    \A j \in JobIds :
        /\ \A i \in 1..Len(posts[j]) :
              (posts[j][i].kind = "progress" /\ posts[j][i].status # "created")
                  => (Returned(j) /\ ~Running(j))
        /\ received[j] # <<>> => Returned(j)

\* after a successful job returned, the delivery of its first update has
\* started its POST and the three others have not started
C23_Witness ==
    \E j \in JobIds :
        /\ Returned(j) /\ Result(j).success
        /\ Len(posts[j]) >= 4
        /\ posts[j][1].status = "posting"
        /\ \A i \in 2..4 : posts[j][i].status = "created"

====
